---- MODULE Spec2Model ----
(***************************************************************************)
(* TickTick -> Org-mode / Denote converter                                 *)
(* (ticktick-to-org-denote-converter.js).                                   *)
(*                                                                         *)
(* Text is modelled structurally.  A string that the code inspects         *)
(* character by character (Title, Tags, Content) is a sequence of          *)
(* one-character strings, the empty string being << >>.  A string the code *)
(* only compares or copies (Kind, Status, taskId, parentId, folder and     *)
(* list names) is an atomic string.  A point in time is << day, minute,    *)
(* second >> (UTC); "Created Time" is such a triple or << >> when the       *)
(* column is empty.  A document is the sequence of its lines, each line a  *)
(* tuple whose first element names the kind of line.                       *)
(***************************************************************************)
EXTENDS Integers, Sequences, FiniteSets, TLC

VARIABLES
    tickTickData,    \* results.data: the parsed records, in input order
    withSignature,   \* the --with-signature flag
    now,             \* the wall clock read by new Date() / Date.now()
    pc,              \* "parsed" | "dispatched" | "threw" | "exited"
    partition,       \* notes / checklistItems / regularTasks of the last run
    orgContent,      \* returned by convertTickTickData
    archiveContent,  \* returned by convertTickTickData (<< >> is "")
    denoteFiles,     \* returned by convertTickTickData
    prevRun,         \* the outputs of the previous run on the same batch
    orgWrite,        \* state of fs.writeFile(orgFile)
    archiveWrite,    \* state of fs.writeFile(archiveFile)
    denoteWrite,     \* state of fs.writeFile(filePath), per note descriptor
    utimes,          \* state of fs.utimes(filePath), per note descriptor
    denoteCount,     \* the counter of lines 544/561
    stdout,          \* what console.log printed (completion reports)
    stderr,          \* what console.error printed
    exitCode         \* the exit status of the process

vars == << tickTickData, withSignature, now, pc, partition, orgContent,
           archiveContent, denoteFiles, prevRun, orgWrite, archiveWrite,
           denoteWrite, utimes, denoteCount, stdout, stderr, exitCode >>

(***************************************************************************)
(* Bounds of the model.                                                    *)
(***************************************************************************)
MaxRecords == 2      \* records in a batch of the classification runs
MaxTreeRecords == 4  \* records in a batch of the checklist-tree runs
MaxIoRecords == 3    \* records in a batch of the file-writing runs
StackLimit == 8      \* call-stack frames before "Maximum call stack size exceeded"
MaxTagLen == 3       \* characters in the Tags column of the tag runs

(***************************************************************************)
(* Generic sequence helpers.                                               *)
(***************************************************************************)
Range(s) == { s[i] : i \in 1..Len(s) }

RECURSIVE Concat(_)
Concat(seqs) == IF seqs = << >> THEN << >> ELSE Head(seqs) \o Concat(Tail(seqs))

Contains(s, x) == \E i \in 1..Len(s) : s[i] = x

IndexOf(s, x) == CHOOSE i \in 1..Len(s) : s[i] = x /\ \A j \in 1..(i - 1) : s[j] # x

\* The ids of the records, by position in the export.
TaskIds == << "1", "2", "3", "4", "5", "6" >>

(***************************************************************************)
(* Characters.                                                             *)
(***************************************************************************)
LowerAlnum == { "a", "b", "c", "d", "e", "f", "g", "h", "i", "j", "k", "l", "m", "n",
                "o", "p", "q", "r", "s", "t", "u", "v", "w", "x", "y", "z",
                "0", "1", "2", "3", "4", "5", "6", "7", "8", "9" }
UpperOf == [ c \in { "A", "B", "C", "E", "T", "U", "X" } |->
             CASE c = "A" -> "a" [] c = "B" -> "b" [] c = "C" -> "c" [] c = "E" -> "e"
               [] c = "T" -> "t" [] c = "U" -> "u" [] c = "X" -> "x" ]
CombiningAcute == "\\u0301"
Whitespace == { " ", "\t" }

\* String.prototype.normalize('NFD') on one character
\* ("e'" stands for the single character e-acute)
Nfd(c) == IF c = "e'" THEN << "e", CombiningAcute >> ELSE << c >>
\* String.prototype.toLowerCase on one character
ToLowerCase(c) == IF c \in DOMAIN UpperOf THEN UpperOf[c] ELSE c

RECURSIVE CollapseHyphens(_)
\* .replace(/-+/g, '-')
CollapseHyphens(s) ==
    IF Len(s) < 2 THEN s
    ELSE IF s[1] = "-" /\ s[2] = "-" THEN CollapseHyphens(Tail(s))
    ELSE << s[1] >> \o CollapseHyphens(Tail(s))

\* .replace(/^-|-$/g, '')
TrimHyphens(s) ==
    LET a == IF s # << >> /\ s[1] = "-" THEN Tail(s) ELSE s
    IN  IF a # << >> /\ a[Len(a)] = "-" THEN SubSeq(a, 1, Len(a) - 1) ELSE a

StripMarksLower(s) ==
    LET decomposed == Concat([ i \in 1..Len(s) |-> Nfd(s[i]) ])
        stripped == SelectSeq(decomposed, LAMBDA c : c # CombiningAcute)
    IN  [ i \in 1..Len(stripped) |-> ToLowerCase(stripped[i]) ]

\* createDenoteFilename, lines 107-113
safeTitle(title) ==
    LET low == StripMarksLower(title)
        hyphened == [ i \in 1..Len(low) |-> IF low[i] \in LowerAlnum THEN low[i] ELSE "-" ]
    IN  TrimHyphens(CollapseHyphens(hyphened))

\* createDenoteFilename, lines 118-126
keywords(tags) ==
    LET cleaned == [ i \in 1..Len(tags) |->
                       SelectSeq(StripMarksLower(tags[i]), LAMBDA c : c \in LowerAlnum) ]
        kept == SelectSeq(cleaned, LAMBDA t : Len(t) > 0)
    IN  Concat([ i \in 1..Len(kept) |-> IF i = 1 THEN kept[i] ELSE << "_" >> \o kept[i] ])

RECURSIVE TrimStart(_)
TrimStart(s) == IF s # << >> /\ s[1] \in Whitespace THEN TrimStart(Tail(s)) ELSE s
RECURSIVE TrimEnd(_)
TrimEnd(s) ==
    IF s # << >> /\ s[Len(s)] \in Whitespace THEN TrimEnd(SubSeq(s, 1, Len(s) - 1)) ELSE s
\* String.prototype.trim
Trim(s) == TrimEnd(TrimStart(s))

RECURSIVE UnderscoreWhitespace(_)
\* .replace(/\s+/g, '_')
UnderscoreWhitespace(s) ==
    IF s = << >> THEN << >>
    ELSE IF s[1] \in Whitespace
         THEN IF Len(s) > 1 /\ s[2] \in Whitespace
              THEN UnderscoreWhitespace(Tail(s))
              ELSE << "_" >> \o UnderscoreWhitespace(Tail(s))
    ELSE << s[1] >> \o UnderscoreWhitespace(Tail(s))

(***************************************************************************)
(* Dates.  A time is << day, minute, second >>.                            *)
(***************************************************************************)
\* new Date(t).toISOString().replace(/[-:]/g, '').split('.')[0]
CompactDate(t) == << "YYYYMMDDTHHMMSS", t[1], t[2], t[3] >>
\* new Date().toISOString().split('T')[0]
IsoDay(t) == << "YYYY-MM-DD", t[1] >>
\* new Date().toISOString().slice(0, 16)
IsoMinute(t) == << "YYYY-MM-DDTHH:MM", t[1], t[2] >>

\* lines 39-50; null is << >>
convertDateForOrg(tickTickDate) ==
    IF tickTickDate = << >> THEN << >>
    ELSE << "YYYY-MM-DD HH:MM", tickTickDate[1], tickTickDate[2] >>

\* createDenoteFilename reading the clock whatever createdDate is
createDenoteFilename_ClockDate(title, tags, createdDate, sigFlag, clock, signature) ==
    [ date      |-> CompactDate(clock),
      signature |-> IF sigFlag THEN << signature >> ELSE << >>,
      title     |-> safeTitle(title),
      keywords  |-> keywords(tags) ]

\* lines 93-133; signature is the value Math.random() yields for this file
createDenoteFilename(title, tags, createdDate, sigFlag, clock, signature) ==
    [ date      |-> CompactDate(IF createdDate # << >> THEN createdDate ELSE clock),
      signature |-> IF sigFlag THEN << signature >> ELSE << >>,
      title     |-> safeTitle(title),
      keywords  |-> keywords(tags) ]

RECURSIVE Split(_, _)
\* String.prototype.split(sep) for a one-character separator
Split(s, sep) ==
    IF ~Contains(s, sep) THEN << s >>
    ELSE LET i == IndexOf(s, sep)
         IN  << SubSeq(s, 1, i - 1) >> \o Split(SubSeq(s, i + 1, Len(s)), sep)

(***************************************************************************)
(* Literals of the code, as character sequences.                           *)
(***************************************************************************)
Untitled == << "U", "n", "t", "i", "t", "l", "e", "d" >>
UntitledNote == Untitled \o << " ", "N", "o", "t", "e" >>
UntitledChecklist == Untitled \o << " ", "C", "h", "e", "c", "k", "l", "i", "s", "t" >>
UnnamedItem == << "U", "n", "n", "a", "m", "e", "d", " ", "i", "t", "e", "m" >>
ChecklistTag == << "c", "h", "e", "c", "k", "l", "i", "s", "t" >>
RangeError == "RangeError: Maximum call stack size exceeded"

(***************************************************************************)
(* Record classifier, lines 141-184.                                       *)
(***************************************************************************)
RECURSIVE findAllDescendants(_, _, _)
\* lines 161-169; a walk deeper than the stack yields the RangeError mark
findAllDescendants(data, taskId, depth) ==
    IF depth > StackLimit THEN << RangeError >>
    ELSE LET children == SelectSeq(data, LAMBDA item : item.parentId = taskId)
         IN  Concat([ i \in 1..Len(children) |->
                 << children[i].taskId >>
                     \o findAllDescendants(data, children[i].taskId, depth + 1) ])

\* the condition of lines 148-150
isChecklistTyped(data, item) ==
    \/ item.Kind = "CHECKLIST"
    \/ item.parentId # ""
    \/ \E j \in 1..Len(data) : data[j].parentId = item.taskId

\* every id the loop of lines 143-158 adds, in order
checklistIdsAdded(data) ==
    Concat([ i \in 1..Len(data) |->
        IF isChecklistTyped(data, data[i])
        THEN << data[i].taskId >>
                 \o (IF data[i].taskId # ""
                     THEN findAllDescendants(data, data[i].taskId, 1)
                     ELSE << >>)
        ELSE << >> ])

\* line 172
notes(data) == SelectSeq(data, LAMBDA task : task.Kind = "NOTE")
\* line 173; ids is the set checklistIds of lines 142-158
checklistItems(data, ids) == SelectSeq(data, LAMBDA task : task.taskId \in ids)
\* lines 174-176
regularTasks(data, ids) ==
    SelectSeq(data, LAMBDA task : task.Kind # "NOTE" /\ task.taskId \notin ids)

\* lines 179-181
todoTasks(regular) == SelectSeq(regular, LAMBDA task : task.Status = "0")
doneTasks(regular) == SelectSeq(regular, LAMBDA task : task.Status = "1")
archivedTasks(regular) == SelectSeq(regular, LAMBDA task : task.Status = "2")
\* line 184
activeTasks(regular) == todoTasks(regular) \o doneTasks(regular)

(***************************************************************************)
(* Outline renderer: processTasks, lines 193-314.  The columns Start Date, *)
(* Due Date, Repeat, Priority, Reminder, Completed Time, Timezone and      *)
(* "Is Check list" are empty in every record of the model, so the lines    *)
(* they would add are absent.                                              *)
(***************************************************************************)
RECURSIVE Dedupe(_)
Dedupe(s) ==
    IF s = << >> THEN << >>
    ELSE LET front == Dedupe(SubSeq(s, 1, Len(s) - 1))
         IN  IF Contains(front, s[Len(s)]) THEN front ELSE Append(front, s[Len(s)])

\* the keys JavaScript treats as array indices, ascending
ArrayIndexKeys == << "0", "1", "2", "3", "4", "5", "6", "7", "8", "9" >>

\* for (const k in obj): integer-like keys ascending, then the others in
\* insertion order (lines 213, 216)
PropertyOrder(inserted) ==
    SelectSeq(ArrayIndexKeys, LAMBDA k : Contains(inserted, k))
        \o SelectSeq(Dedupe(inserted), LAMBDA k : ~Contains(ArrayIndexKeys, k))

\* line 200
folderOf(task) == IF task.FolderName # "" THEN task.FolderName ELSE "Inbox"
\* line 201
listOf(task) == IF task.ListName # "" THEN task.ListName ELSE "Default"

\* statusKeyword without the archive case of line 223
statusKeyword_NoArchiveCase(task, isArchive) ==
    IF task.Status = "1" THEN "DONE"
    ELSE IF task.Status = "2" THEN "ARCHIVED"
    ELSE "TODO"

\* lines 221-224
statusKeyword(task, isArchive) ==
    IF task.Status = "1" THEN "DONE"
    ELSE IF task.Status = "2" THEN (IF isArchive THEN "DONE" ELSE "ARCHIVED")
    ELSE "TODO"

\* lines 232-237: the tags of the annotation, << >> when none is appended
tagAnnotation(task) ==
    IF task.Tags = << >> THEN << >>
    ELSE LET pieces == Split(task.Tags, ",")
             tags == [ i \in 1..Len(pieces) |-> UnderscoreWhitespace(Trim(pieces[i])) ]
         IN  IF Len(tags) > 0 /\ tags[1] # << >> THEN tags ELSE << >>

\* lines 259-266
bodyLines(task) ==
    IF task.Content = << >> THEN << >>
    ELSE LET raw == Split(SelectSeq(task.Content, LAMBDA c : c # "\r"), "\n")
             kept == SelectSeq(raw, LAMBDA line : Trim(line) # << >>)
         IN  [ i \in 1..Len(kept) |-> << "body", Trim(kept[i]) >> ]

\* lines 219-308: one outline entry
taskEntry(task, isArchive) ==
    << << "****", statusKeyword(task, isArchive),
          IF task.Title # << >> THEN task.Title ELSE Untitled,
          tagAnnotation(task) >> >>
    \o bodyLines(task)
    \o << << ":PROPERTIES:" >> >>
    \o (IF task.CreatedTime # << >> THEN << << ":CREATED:", task.CreatedTime >> >> ELSE << >>)
    \o (IF task.taskId # "" THEN << << ":TICKTICK_ID:", task.taskId >> >> ELSE << >>)
    \o (IF task.parentId # "" THEN << << ":PARENT_ID:", task.parentId >> >> ELSE << >>)
    \o << << ":END:" >>, << "blank" >> >>

processTasks(tasks, isArchive) ==
    LET folders == PropertyOrder([ i \in 1..Len(tasks) |-> folderOf(tasks[i]) ])
        inFolder(f) == SelectSeq(tasks, LAMBDA t : folderOf(t) = f)
        lists(f) == PropertyOrder([ i \in 1..Len(inFolder(f)) |-> listOf(inFolder(f)[i]) ])
        group(f, l) == SelectSeq(inFolder(f), LAMBDA t : listOf(t) = l)
        listSection(f, l) ==
            << << "***", l >> >>
            \o Concat([ i \in 1..Len(group(f, l)) |-> taskEntry(group(f, l)[i], isArchive) ])
        folderSection(f) ==
            << << "**", f >> >>
            \o Concat([ j \in 1..Len(lists(f)) |-> listSection(f, lists(f)[j]) ])
    IN  (IF isArchive THEN << >> ELSE << << "* Tasks" >>, << "blank" >> >>)
        \o Concat([ k \in 1..Len(folders) |-> folderSection(folders[k]) ])

(***************************************************************************)
(* Note file builder, lines 316-466.                                       *)
(***************************************************************************)
BlankRecord ==
    [ Kind |-> "", taskId |-> "", parentId |-> "", Status |-> "", Title |-> << >>,
      FolderName |-> "", ListName |-> "", Tags |-> << >>, Content |-> << >>,
      CreatedTime |-> << >> ]

RangeErrorItem == [ BlankRecord EXCEPT !.taskId = RangeError ]

\* lines 320-325
parentItems(items) ==
    SelectSeq(items, LAMBDA item :
        /\ \E j \in 1..Len(items) : items[j].parentId = item.taskId
        /\ ~(item.parentId # ""))

RECURSIVE getAllDescendants(_, _, _)
\* lines 330-339
getAllDescendants(items, parentId, depth) ==
    IF depth > StackLimit THEN << RangeErrorItem >>
    ELSE Concat([ i \in 1..Len(items) |->
             IF items[i].parentId = parentId
             THEN << items[i] >> \o getAllDescendants(items, items[i].taskId, depth + 1)
             ELSE << >> ])

\* line 342
checklistKey(parent) == << parent.FolderName, parent.ListName, parent.Title >>

RECURSIVE checklistsByParent(_, _)
\* lines 317, 328-348: the object's entries in Object.entries order.  A key
\* assigned again keeps its place and takes the new value.
checklistsByParent(parents, items) ==
    IF parents = << >> THEN << >>
    ELSE LET before == checklistsByParent(SubSeq(parents, 1, Len(parents) - 1), items)
             parent == parents[Len(parents)]
             entry == [ key      |-> checklistKey(parent),
                        parent   |-> parent,
                        children |-> getAllDescendants(items, parent.taskId, 1) ]
         IN  IF \E i \in 1..Len(before) : before[i].key = entry.key
             THEN [ i \in 1..Len(before) |->
                      IF before[i].key = entry.key THEN entry ELSE before[i] ]
             ELSE Append(before, entry)

RECURSIVE renderChecklistItem_ChildrenFirst(_, _, _, _)
\* renderChecklistItem emitting the children of an item before the item
renderChecklistItem_ChildrenFirst(children, item, indentLevel, depth) ==
    IF depth > StackLimit THEN << << RangeError >> >>
    ELSE LET status == IF item.Status = "1" THEN "X" ELSE " "
             itemText == IF item.Title # << >> THEN item.Title
                         ELSE IF item.Content # << >> THEN item.Content
                         ELSE UnnamedItem
             immediateChildren ==
                 SelectSeq(children, LAMBDA child : child.parentId = item.taskId)
         IN  Concat([ i \in 1..Len(immediateChildren) |->
                    renderChecklistItem_ChildrenFirst(children, immediateChildren[i],
                                                      indentLevel + 1, depth + 1) ])
             \o << << "- [ ]", 2 * indentLevel, status, itemText >> >>
             \o (IF item.Content # << >> /\ item.Content # item.Title
                 THEN << << "item content", 2 * indentLevel + 2, item.Content >> >>
                 ELSE << >>)

RECURSIVE renderChecklistItem(_, _, _, _)
\* lines 385-403
renderChecklistItem(children, item, indentLevel, depth) ==
    IF depth > StackLimit THEN << << RangeError >> >>
    ELSE LET status == IF item.Status = "1" THEN "X" ELSE " "
             itemText == IF item.Title # << >> THEN item.Title
                         ELSE IF item.Content # << >> THEN item.Content
                         ELSE UnnamedItem
             immediateChildren ==
                 SelectSeq(children, LAMBDA child : child.parentId = item.taskId)
         IN  << << "- [ ]", 2 * indentLevel, status, itemText >> >>
             \o (IF item.Content # << >> /\ item.Content # item.Title
                 THEN << << "item content", 2 * indentLevel + 2, item.Content >> >>
                 ELSE << >>)
             \o Concat([ i \in 1..Len(immediateChildren) |->
                    renderChecklistItem(children, immediateChildren[i],
                                        indentLevel + 1, depth + 1) ])

\* lines 355-358 and 433
splitTags(record) ==
    IF record.Tags # << >>
    THEN LET pieces == Split(record.Tags, ",") IN [ i \in 1..Len(pieces) |-> Trim(pieces[i]) ]
    ELSE << >>

\* lines 365-372 and 437-444
identifier(date, sigFlag, clock, signature) ==
    << CompactDate(IF date # << >> THEN date ELSE clock),
       IF sigFlag THEN << signature >> ELSE << >> >>

\* lines 374-377 and 446-449
noteHeader(title, tags, date, sigFlag, clock, signature) ==
    << << "#+TITLE:", title >>,
       << "#+DATE:", IF convertDateForOrg(date) # << >> THEN convertDateForOrg(date)
                     ELSE IsoMinute(clock) >>,
       << "#+FILETAGS:", [ i \in 1..Len(tags) |-> UnderscoreWhitespace(tags[i]) ] >>,
       << "#+IDENTIFIER:", identifier(date, sigFlag, clock, signature) >>,
       << "blank" >> >>

\* lines 411-415 and 455-459
noteFooter(source, record) ==
    << << "blank" >>, << "#+begin_comment" >>, << "Source:", source >> >>
    \o (IF record.FolderName # "" THEN << << "Folder:", record.FolderName >> >> ELSE << >>)
    \o (IF record.ListName # "" THEN << << "List:", record.ListName >> >> ELSE << >>)
    \o (IF record.CreatedTime # << >> THEN << << "Created:", record.CreatedTime >> >> ELSE << >>)
    \o << << "#+end_comment" >> >>

\* lines 351-422: the note descriptor of one entry of checklistsByParent
checklistNote(entry, sigFlag, clock, signature) ==
    LET parent == entry.parent
        children == entry.children
        title == IF parent.Title # << >> THEN parent.Title ELSE UntitledChecklist
        given == splitTags(parent)
        tags == IF Contains(given, ChecklistTag) THEN given ELSE Append(given, ChecklistTag)
        date == IF parent.CreatedTime # << >> THEN parent.CreatedTime
                ELSE IF children # << >> THEN children[1].CreatedTime
                ELSE << >>
        topLevelChildren == SelectSeq(children, LAMBDA child : child.parentId = parent.taskId)
    IN  [ filename |-> createDenoteFilename(title, tags, date, sigFlag, clock, signature),
          content  |->
              noteHeader(title, tags, date, sigFlag, clock, signature)
              \o (IF parent.Content # << >>
                  THEN << << "text", parent.Content >>, << "blank" >> >> ELSE << >>)
              \o Concat([ i \in 1..Len(topLevelChildren) |->
                     renderChecklistItem(children, topLevelChildren[i], 0, 1) ])
              \o << << "blank" >> >>
              \o noteFooter("TickTick Checklist", parent),
          modifiedTime |-> date ]

\* lines 431-466: the note descriptor of one NOTE record
plainNote(note, sigFlag, clock, signature) ==
    LET title == IF note.Title # << >> THEN note.Title ELSE UntitledNote
        tags == splitTags(note)
    IN  [ filename |-> createDenoteFilename(title, tags, note.CreatedTime, sigFlag,
                                            clock, signature),
          content  |->
              noteHeader(title, tags, note.CreatedTime, sigFlag, clock, signature)
              \o (IF note.Content # << >>
                  THEN << << "text", SelectSeq(note.Content, LAMBDA c : c # "\r") >> >>
                  ELSE << << "blank" >> >>)
              \o noteFooter("TickTick", note),
          modifiedTime |-> note.CreatedTime ]

\* lines 316-348: the entries of checklistsByParent, given checklistItems
checklistEntries(items) == checklistsByParent(parentItems(items), items)

\* lines 136-139 and 468-469
outlineDocument(regular, clock) ==
    << << "#+TITLE:", "TickTick Tasks Backup" >>, << "#+DATE:", IsoDay(clock) >>,
       << "blank" >> >>
    \o processTasks(activeTasks(regular), FALSE)

\* lines 186-190 and 471-474
archiveDocument(regular, clock) ==
    IF Len(archivedTasks(regular)) > 0
    THEN << << "#+TITLE:", "TickTick Archived Tasks" >>, << "#+DATE:", IsoDay(clock) >>,
            << "blank" >>, << "* Archived Tasks" >>, << "blank" >> >>
         \o processTasks(archivedTasks(regular), TRUE)
    ELSE << >>

\* whether rendering the entries exhausts the call stack
renderOverflows(entries) ==
    \E i \in 1..Len(entries) :
        LET e == entries[i]
            top == SelectSeq(e.children, LAMBDA c : c.parentId = e.parent.taskId)
        IN  \/ Contains(e.children, RangeErrorItem)
            \/ \E k \in 1..Len(top) :
                   Contains(renderChecklistItem(e.children, top[k], 0, 1), << RangeError >>)

\* lines 136-477.  sigs[k] is the value Math.random() yields for the k-th
\* note descriptor.  The result carries the classification of lines 172-176.
convertTickTickData(data, sigFlag, clock, sigs) ==
    LET added == checklistIdsAdded(data)
    IN  IF Contains(added, RangeError) THEN [ threw |-> TRUE ]
        ELSE LET ids == Range(added)
                 items == checklistItems(data, ids)
                 regular == regularTasks(data, ids)
                 entries == checklistEntries(items)
                 ns == notes(data)
             IN  IF renderOverflows(entries) THEN [ threw |-> TRUE ]
                 ELSE [ threw          |-> FALSE,
                        notes          |-> ns,
                        checklistItems |-> items,
                        regularTasks   |-> regular,
                        orgContent     |-> outlineDocument(regular, clock),
                        archiveContent |-> archiveDocument(regular, clock),
                        denoteFiles    |->
                            [ k \in 1..Len(entries) |->
                                checklistNote(entries[k], sigFlag, clock, sigs[k]) ]
                            \o [ k \in 1..Len(ns) |->
                                   plainNote(ns[k], sigFlag, clock, sigs[Len(entries) + k]) ] ]

(***************************************************************************)
(* Input batches.  Record i of a batch has taskId TaskIds[i]; its title is *)
(* "T<i>" unless stated otherwise.                                         *)
(***************************************************************************)
TitleOf(i) == << "T", TaskIds[i] >>

Kinds == { "TEXT", "NOTE", "CHECKLIST" }
Statuses == { "0", "1", "2", "" }
ParentIds == { "", "1", "2" }

\* the clock readings of the model: a second, a minute and a day apart
ClockReadings == { << 0, 0, 0 >>, << 0, 0, 1 >>, << 0, 1, 0 >>, << 1, 0, 0 >> }
Later(t) == { u \in ClockReadings :
                \/ u[1] > t[1]
                \/ u[1] = t[1] /\ u[2] > t[2]
                \/ u[1] = t[1] /\ u[2] = t[2] /\ u[3] >= t[3] }
CreatedAt == << 2, 3, 4 >>
Signatures == { "k3x", "9ab" }

\* the state in which results.data has just been parsed
Parsed(batch, flag, clock) ==
    /\ tickTickData = batch
    /\ withSignature = flag
    /\ now = clock
    /\ pc = "parsed"
    /\ partition = << >>
    /\ orgContent = << >>
    /\ archiveContent = << >>
    /\ denoteFiles = << >>
    /\ prevRun = << >>
    /\ orgWrite = "none"
    /\ archiveWrite = "none"
    /\ denoteWrite = << >>
    /\ utimes = << >>
    /\ denoteCount = 0
    /\ stdout = {}
    /\ stderr = {}
    /\ exitCode = 0

\* record i of a batch of the classification runs; c = << Kind, parentId, Status >>
ConvertRecord(i, c) ==
    [ BlankRecord EXCEPT !.taskId = TaskIds[i], !.Title = TitleOf(i),
                         !.Kind = c[1], !.parentId = c[2], !.Status = c[3],
                         !.FolderName = IF i % 2 = 1 THEN "Work" ELSE "" ]

InitConvert ==
    \E n \in 0..MaxRecords :
        \E c \in [ 1..n -> Kinds \X ParentIds \X Statuses ] :
            Parsed([ i \in 1..n |-> ConvertRecord(i, c[i]) ], FALSE, << 0, 0, 0 >>)

(***************************************************************************)
(* The complete callback of Papa.parse, lines 516-568: the conversion and  *)
(* the dispatch of every write.  An exception thrown by the conversion is  *)
(* caught nowhere and ends the process with status 1.                      *)
(***************************************************************************)
Complete(sigs) ==
    /\ pc = "parsed"
    /\ LET r == convertTickTickData(tickTickData, withSignature, now, sigs)
       IN  IF r.threw
           THEN /\ pc' = "threw"
                /\ exitCode' = 1
                /\ stderr' = stderr \cup { << RangeError, 0 >> }
                /\ UNCHANGED << partition, orgContent, archiveContent, denoteFiles,
                                orgWrite, archiveWrite, denoteWrite, utimes >>
           ELSE /\ pc' = "dispatched"
                /\ partition' = [ notes          |-> r.notes,
                                  checklistItems |-> r.checklistItems,
                                  regularTasks   |-> r.regularTasks ]
                /\ orgContent' = r.orgContent
                /\ archiveContent' = r.archiveContent
                /\ denoteFiles' = r.denoteFiles
                /\ orgWrite' = "pending"
                /\ archiveWrite' = IF r.archiveContent # << >> THEN "pending" ELSE "none"
                /\ denoteWrite' = [ k \in 1..Len(r.denoteFiles) |-> "pending" ]
                /\ utimes' = [ k \in 1..Len(r.denoteFiles) |-> "none" ]
                /\ UNCHANGED << exitCode, stderr >>
    /\ denoteCount' = 0
    /\ UNCHANGED << tickTickData, withSignature, now, prevRun, stdout >>

\* the number of note descriptors the run builds (none when it throws)
descriptorCount(data) ==
    LET added == checklistIdsAdded(data)
    IN  IF Contains(added, RangeError) THEN 0
        ELSE Len(checklistEntries(checklistItems(data, Range(added)))) + Len(notes(data))

\* the values Math.random() may yield for the files of the run
SignatureChoices ==
    IF withSignature THEN [ 1..descriptorCount(tickTickData) -> Signatures ]
    ELSE { [ k \in 1..descriptorCount(tickTickData) |-> "" ] }

Convert == \E sigs \in SignatureChoices : Complete(sigs)

\* lines 521-528
OrgWritten(err) ==
    /\ pc = "dispatched"
    /\ orgWrite = "pending"
    /\ IF err
       THEN /\ orgWrite' = "failed"
            /\ stderr' = stderr \cup { << "Error writing org file", 0 >> }
            /\ exitCode' = 1
            /\ pc' = "exited"
            /\ UNCHANGED stdout
       ELSE /\ orgWrite' = "ok"
            /\ stdout' = stdout \cup { << "Successfully created org file", 0 >> }
            /\ UNCHANGED << stderr, exitCode, pc >>
    /\ UNCHANGED << tickTickData, withSignature, now, partition, orgContent,
                    archiveContent, denoteFiles, prevRun, archiveWrite, denoteWrite,
                    utimes, denoteCount >>

\* lines 533-540
ArchiveWritten(err) ==
    /\ pc = "dispatched"
    /\ archiveWrite = "pending"
    /\ IF err
       THEN /\ archiveWrite' = "failed"
            /\ stderr' = stderr \cup { << "Error writing archive file", 0 >> }
            /\ UNCHANGED stdout
       ELSE /\ archiveWrite' = "ok"
            /\ stdout' = stdout \cup { << "Successfully created archive file", 0 >> }
            /\ UNCHANGED stderr
    /\ UNCHANGED << tickTickData, withSignature, now, pc, partition, orgContent,
                    archiveContent, denoteFiles, prevRun, orgWrite, denoteWrite,
                    utimes, denoteCount, exitCode >>

\* DenoteWritten setting the file time outside the success branch
DenoteWritten_StampAlways(k, err) ==
    /\ pc = "dispatched"
    /\ k \in 1..Len(denoteWrite)
    /\ denoteWrite[k] = "pending"
    /\ utimes' = IF denoteFiles[k].modifiedTime # << >>
                 THEN [ utimes EXCEPT ![k] = "pending" ]
                 ELSE utimes
    /\ IF err
       THEN /\ denoteWrite' = [ denoteWrite EXCEPT ![k] = "failed" ]
            /\ stderr' = stderr \cup { << "Error writing denote file", k >> }
            /\ UNCHANGED << denoteCount, stdout >>
       ELSE /\ denoteWrite' = [ denoteWrite EXCEPT ![k] = "ok" ]
            /\ denoteCount' = denoteCount + 1
            /\ stdout' = IF denoteCount + 1 = Len(denoteFiles)
                         THEN stdout \cup { << "Successfully created denote files",
                                               denoteCount + 1 >> }
                         ELSE stdout
            /\ UNCHANGED stderr
    /\ UNCHANGED << tickTickData, withSignature, now, pc, partition, orgContent,
                    archiveContent, denoteFiles, prevRun, orgWrite, archiveWrite,
                    exitCode >>

\* lines 547-566
DenoteWritten(k, err) ==
    /\ pc = "dispatched"
    /\ k \in 1..Len(denoteWrite)
    /\ denoteWrite[k] = "pending"
    /\ IF err
       THEN /\ denoteWrite' = [ denoteWrite EXCEPT ![k] = "failed" ]
            /\ stderr' = stderr \cup { << "Error writing denote file", k >> }
            /\ UNCHANGED << utimes, denoteCount, stdout >>
       ELSE /\ denoteWrite' = [ denoteWrite EXCEPT ![k] = "ok" ]
            /\ utimes' = IF denoteFiles[k].modifiedTime # << >>
                         THEN [ utimes EXCEPT ![k] = "pending" ]
                         ELSE utimes
            /\ denoteCount' = denoteCount + 1
            /\ stdout' = IF denoteCount + 1 = Len(denoteFiles)
                         THEN stdout \cup { << "Successfully created denote files",
                                               denoteCount + 1 >> }
                         ELSE stdout
            /\ UNCHANGED stderr
    /\ UNCHANGED << tickTickData, withSignature, now, pc, partition, orgContent,
                    archiveContent, denoteFiles, prevRun, orgWrite, archiveWrite,
                    exitCode >>

\* lines 554-558
UtimesDone(k, err) ==
    /\ pc = "dispatched"
    /\ k \in 1..Len(utimes)
    /\ utimes[k] = "pending"
    /\ utimes' = [ utimes EXCEPT ![k] = IF err THEN "failed" ELSE "ok" ]
    /\ stderr' = IF err THEN stderr \cup { << "Error setting time", k >> } ELSE stderr
    /\ UNCHANGED << tickTickData, withSignature, now, pc, partition, orgContent,
                    archiveContent, denoteFiles, prevRun, orgWrite, archiveWrite,
                    denoteWrite, denoteCount, stdout, exitCode >>

\* the program is run once more on the same export, at a later time
RunAgain ==
    /\ pc = "dispatched"
    /\ prevRun = << >>
    /\ prevRun' = << [ now            |-> now,
                       orgContent     |-> orgContent,
                       archiveContent |-> archiveContent,
                       denoteFiles    |-> denoteFiles ] >>
    /\ now' \in Later(now)
    /\ pc' = "parsed"
    /\ partition' = << >>
    /\ orgContent' = << >>
    /\ archiveContent' = << >>
    /\ denoteFiles' = << >>
    /\ orgWrite' = "none"
    /\ archiveWrite' = "none"
    /\ denoteWrite' = << >>
    /\ utimes' = << >>
    /\ denoteCount' = 0
    /\ stdout' = {}
    /\ stderr' = {}
    /\ UNCHANGED << tickTickData, withSignature, exitCode >>

\* the conversion alone, on the batches of the classification runs
NextConvert == Convert
SpecConvert == InitConvert /\ [][NextConvert]_vars

\* record i of a batch of the repeated runs; c = << Kind, parentId, Created Time >>
RerunRecord(i, c) ==
    [ BlankRecord EXCEPT !.taskId = TaskIds[i], !.Title = TitleOf(i),
                         !.Kind = c[1], !.parentId = c[2], !.CreatedTime = c[3],
                         !.Status = IF i = 2 THEN "2" ELSE "0" ]

InitRerun ==
    \E n \in 0..MaxRecords :
        \E c \in [ 1..n -> { "TEXT", "NOTE" } \X { "", "1" } \X { << >>, CreatedAt } ] :
            \E flag \in BOOLEAN :
                Parsed([ i \in 1..n |-> RerunRecord(i, c[i]) ], flag, << 0, 0, 0 >>)

\* two runs of the conversion on the same batch
NextRerun == Convert \/ RunAgain
SpecRerun == InitRerun /\ [][NextRerun]_vars

\* record i of a batch of the checklist-tree runs; p is its parentId
TreeRecord(i, p) ==
    [ BlankRecord EXCEPT !.taskId = TaskIds[i], !.Title = TitleOf(i), !.Kind = "TEXT",
                         !.parentId = p,
                         !.Status = IF i % 2 = 0 THEN "1" ELSE "0",
                         !.Content = IF i = 3 THEN << "c" >> ELSE << >> ]

TreeParentIds == { "" } \cup { TaskIds[j] : j \in 1..MaxTreeRecords }

InitTree ==
    \E n \in 0..MaxTreeRecords :
        \E p \in [ 1..n -> TreeParentIds ] :
            Parsed([ i \in 1..n |-> TreeRecord(i, p[i]) ], FALSE, << 0, 0, 0 >>)

\* the conversion alone, on the batches of the checklist-tree runs
NextTree == Convert
SpecTree == InitTree /\ [][NextTree]_vars

\* as TreeRecord, with a title of its own or the title "T" shared with others
RootsRecord(i, p, shared) ==
    [ TreeRecord(i, p) EXCEPT !.Title = IF shared THEN << "T" >> ELSE TitleOf(i),
                              !.Content = << >> ]

\* every parentId is empty or the id of a record of the batch
InitRoots ==
    \E n \in 0..MaxTreeRecords :
        \E c \in [ 1..n -> ({ "" } \cup { TaskIds[j] : j \in 1..n }) \X BOOLEAN ] :
            Parsed([ i \in 1..n |-> RootsRecord(i, c[i][1], c[i][2]) ],
                   FALSE, << 0, 0, 0 >>)

\* the conversion alone, on batches whose roots may share a title
NextRoots == Convert
SpecRoots == InitRoots /\ [][NextRoots]_vars

\* record i of a batch of the grouping runs; c = << Folder Name, List Name, Status >>
GroupRecord(i, c) ==
    [ BlankRecord EXCEPT !.taskId = TaskIds[i], !.Title = TitleOf(i), !.Kind = "TEXT",
                         !.FolderName = c[1], !.ListName = c[2], !.Status = c[3] ]

\* the folder and list names of the export: absent, a word, a number
FolderNames == { "", "Work", "2" }
ListNames == { "", "1" }

InitGroups ==
    \E n \in 0..MaxRecords :
        \E c \in [ 1..n -> FolderNames \X ListNames \X { "0", "1", "2" } ] :
            Parsed([ i \in 1..n |-> GroupRecord(i, c[i]) ], FALSE, << 0, 0, 0 >>)

\* the conversion alone, on batches of regular tasks in several groups
NextGroups == Convert
SpecGroups == InitGroups /\ [][NextGroups]_vars

\* the record of a batch of the tag runs
TagRecord(tags, status) ==
    [ BlankRecord EXCEPT !.taskId = TaskIds[1], !.Title = TitleOf(1), !.Kind = "TEXT",
                         !.Tags = tags, !.Status = status ]

\* the characters of the Tags column: letters, the separator, a space
TagChars == { "a", "b", ",", " " }

InitTags ==
    \E n \in 0..MaxTagLen :
        \E tags \in [ 1..n -> TagChars ] :
            \E status \in { "0", "2" } :
                Parsed(<< TagRecord(tags, status) >>, FALSE, << 0, 0, 0 >>)

\* the conversion alone, on a task with a Tags column
NextTags == Convert
SpecTags == InitTags /\ [][NextTags]_vars

\* record i of a batch of the file-writing runs
IoRecord(i, c) ==
    [ BlankRecord EXCEPT !.taskId = TaskIds[i], !.Title = TitleOf(i),
                         !.Kind = IF c \in { "note", "undated note" } THEN "NOTE" ELSE "TEXT",
                         !.Status = IF c = "archived" THEN "2" ELSE "0",
                         !.CreatedTime = IF c = "note" THEN CreatedAt ELSE << >> ]

Init ==
    \E n \in 0..MaxIoRecords :
        \E c \in [ 1..n -> { "note", "undated note", "archived", "todo" } ] :
            Parsed([ i \in 1..n |-> IoRecord(i, c[i]) ], FALSE, << 0, 0, 0 >>)

\* the program from the parsed export on: the conversion, then the
\* callbacks of the writes in any order
Next ==
    \/ Convert
    \/ \E err \in BOOLEAN : OrgWritten(err)
    \/ \E err \in BOOLEAN : ArchiveWritten(err)
    \/ \E k \in 1..Len(denoteWrite), err \in BOOLEAN : DenoteWritten(k, err)
    \/ \E k \in 1..Len(utimes), err \in BOOLEAN : UtimesDone(k, err)

Spec == Init /\ [][Next]_vars

(***************************************************************************)
(* Reading a document back.                                                *)
(***************************************************************************)
\* the lines of an outline that are task headlines
Headlines(doc) == { i \in 1..Len(doc) : doc[i][1] = "****" }

\* the TICKTICK_ID of the entry whose headline is line i
EntryId(doc, i) ==
    LET j == CHOOSE j \in (i + 1)..Len(doc) :
                 /\ doc[j][1] = ":TICKTICK_ID:"
                 /\ \A k \in (i + 1)..(j - 1) : doc[k][1] # ":TICKTICK_ID:"
    IN  doc[j][2]

\* the headlines of the entries of a record
EntriesOf(doc, task) == { i \in Headlines(doc) : EntryId(doc, i) = task.taskId }

\* a record that is neither a note nor part of a parent/child relation
IsRegular(data, task) ==
    /\ task.Kind \notin { "NOTE", "CHECKLIST" }
    /\ task.parentId = ""
    /\ \A j \in 1..Len(data) : data[j].parentId # task.taskId

Returned == pc = "dispatched"

(***************************************************************************)
(* Claims.                                                                 *)
(***************************************************************************)
InBucket(bucket, task) == IF Contains(bucket, task) THEN 1 ELSE 0

\* C1: the classification of convertTickTickData is a partition of the batch:
\* every record is in exactly one of notes, checklistItems and regularTasks.
C1_Partition ==
    Returned =>
        \A i \in 1..Len(tickTickData) :
            InBucket(partition.notes, tickTickData[i])
              + InBucket(partition.checklistItems, tickTickData[i])
              + InBucket(partition.regularTasks, tickTickData[i]) = 1

\* C2: every regular task with Status "2" has one entry in the archive
\* document, with keyword DONE, and none in the active document, and no entry
\* of the active document carries the keyword ARCHIVED.
C2_ArchivedDone ==
    Returned =>
        /\ \A i \in 1..Len(tickTickData) :
               LET task == tickTickData[i]
               IN  IsRegular(tickTickData, task) /\ task.Status = "2" =>
                       /\ archiveContent # << >>
                       /\ Cardinality(EntriesOf(archiveContent, task)) = 1
                       /\ \A h \in EntriesOf(archiveContent, task) :
                              archiveContent[h][2] = "DONE"
                       /\ EntriesOf(orgContent, task) = {}
        /\ \A h \in Headlines(orgContent) : orgContent[h][2] # "ARCHIVED"

C2_Witness ==
    /\ Returned
    /\ \E i, j \in 1..Len(tickTickData) :
           /\ IsRegular(tickTickData, tickTickData[i])
           /\ tickTickData[i].Status = "2"
           /\ EntriesOf(archiveContent, tickTickData[i]) # {}
           /\ IsRegular(tickTickData, tickTickData[j])
           /\ tickTickData[j].Status = "1"
           /\ EntriesOf(orgContent, tickTickData[j]) # {}

\* C4: the tree walks over parentId edges terminate on every batch, cycles
\* included: convertTickTickData always returns.
C4_WalksReturn == pc # "threw"

\* C9: every regular task whose Status is neither "1" nor "2" has exactly one
\* entry in the active outline, with keyword TODO.
C9_TodoOnce ==
    Returned =>
        \A i \in 1..Len(tickTickData) :
            LET task == tickTickData[i]
            IN  IsRegular(tickTickData, task) /\ task.Status \notin { "1", "2" } =>
                    /\ Cardinality(EntriesOf(orgContent, task)) = 1
                    /\ \A h \in EntriesOf(orgContent, task) : orgContent[h][2] = "TODO"

SameOutputs ==
    /\ orgContent = prevRun[1].orgContent
    /\ archiveContent = prevRun[1].archiveContent
    /\ denoteFiles = prevRun[1].denoteFiles

SecondRunReturned == Returned /\ prevRun # << >>

\* C3 as stated: without the signature flag, two runs on the same batch
\* yield identical outputs, whatever the clock and the Created Time columns.
C3_SameOutputsAlways == (SecondRunReturned /\ ~withSignature) => SameOutputs

\* C3, amended: without the signature flag, two runs on the same batch that
\* read the clock on the same UTC day yield identical outputs when every
\* note descriptor has a creation date.
C3_SameOutputsSameDay ==
    ( /\ SecondRunReturned
      /\ ~withSignature
      /\ now[1] = prevRun[1].now[1]
      /\ \A k \in 1..Len(denoteFiles) : denoteFiles[k].modifiedTime # << >> )
    => SameOutputs

C3_Witness ==
    /\ SecondRunReturned
    /\ ~withSignature
    /\ now[1] = prevRun[1].now[1]
    /\ now # prevRun[1].now
    /\ Len(denoteFiles) >= 1
    /\ \A k \in 1..Len(denoteFiles) : denoteFiles[k].modifiedTime # << >>
    /\ archiveContent # << >>
    /\ SameOutputs

(***************************************************************************)
(* Checklist trees, read from the batch.                                   *)
(***************************************************************************)
HasRecord(data, id) == \E j \in 1..Len(data) : data[j].taskId = id
RecordOf(data, id) == data[CHOOSE j \in 1..Len(data) : data[j].taskId = id]

RECURSIVE DepthBelow(_, _, _, _)
\* the number of parentId edges from task up to the record rootId, 0 when
\* task is not below it
DepthBelow(data, rootId, task, fuel) ==
    IF fuel = 0 \/ task.parentId = "" THEN 0
    ELSE IF task.parentId = rootId THEN 1
    ELSE IF ~HasRecord(data, task.parentId) THEN 0
    ELSE LET d == DepthBelow(data, rootId, RecordOf(data, task.parentId), fuel - 1)
         IN  IF d = 0 THEN 0 ELSE d + 1

Depth(data, root, task) == DepthBelow(data, root.taskId, task, Len(data))

DescendantsOf(data, root) ==
    { i \in 1..Len(data) : Depth(data, root, data[i]) > 0 }

HasChild(data, task) == \E j \in 1..Len(data) : data[j].parentId = task.taskId

\* the checkbox lines of a note
CheckboxLines(content) == SelectSeq(content, LAMBDA line : line[1] = "- [ ]")

\* the notes whose title is that of the record
NotesTitled(root) ==
    { k \in 1..Len(denoteFiles) : denoteFiles[k].content[1] = << "#+TITLE:", root.Title >> }

\* the checkbox lines are the pre-order of the records below root: one line
\* per descendant, at 2 * (depth - 1) spaces, each below its parent's line,
\* the children of a record in batch order
RendersBelow(data, root, lines) ==
    LET node(p) == CHOOSE i \in 1..Len(data) : data[i].Title = lines[p][4]
    IN  /\ Len(lines) = Cardinality(DescendantsOf(data, root))
        /\ \A i \in DescendantsOf(data, root) :
               \E p \in 1..Len(lines) : lines[p][4] = data[i].Title
        /\ \A p \in 1..Len(lines) :
               /\ node(p) \in DescendantsOf(data, root)
               /\ lines[p][2] = 2 * (Depth(data, root, data[node(p)]) - 1)
               /\ lines[p][3] = (IF data[node(p)].Status = "1" THEN "X" ELSE " ")
               /\ data[node(p)].parentId # root.taskId =>
                      \E q \in 1..(p - 1) :
                          /\ data[node(q)].taskId = data[node(p)].parentId
                          /\ \A r \in (q + 1)..(p - 1) : lines[r][2] > lines[q][2]
               /\ \A q \in 1..(p - 1) :
                      data[node(q)].parentId = data[node(p)].parentId => node(q) < node(p)

\* a root with two children, one of which has its own child
ExampleTree(data) ==
    /\ Len(data) = 4
    /\ \E root, a, b, c \in 1..4 :
           /\ Cardinality({ root, a, b, c }) = 4
           /\ data[root].parentId = ""
           /\ data[a].parentId = data[root].taskId
           /\ data[b].parentId = data[root].taskId
           /\ data[c].parentId = data[a].taskId

Indents(lines) == [ p \in 1..Len(lines) |-> lines[p][2] ]

\* C7 as stated: for a root with two children, one of which has its own
\* child, the note has three checkbox lines at indent depths 0, 1, 2.
C7_DepthsZeroOneTwo ==
    Returned /\ ExampleTree(tickTickData) =>
        /\ Len(denoteFiles) = 1
        /\ Indents(CheckboxLines(denoteFiles[1].content)) = << 0, 2, 4 >>

\* C7, amended: the note built for a checklist root has one checkbox line
\* per record below the root (none for the root, which is the title), in
\* pre-order, each indented by 2 spaces times its depth below the root less
\* one.
C7_PreOrderBelowRoot ==
    Returned =>
        \A i \in 1..Len(tickTickData) :
            LET root == tickTickData[i]
            IN  root.parentId = "" /\ HasChild(tickTickData, root) =>
                    /\ NotesTitled(root) # {}
                    /\ \A k \in NotesTitled(root) :
                           RendersBelow(tickTickData, root,
                                        CheckboxLines(denoteFiles[k].content))

C7_Witness ==
    /\ Returned
    /\ [ i \in 1..Len(tickTickData) |-> tickTickData[i].parentId ] = << "", "1", "2", "1" >>
    /\ Len(denoteFiles) = 1
    /\ Indents(CheckboxLines(denoteFiles[1].content)) = << 0, 2, 0 >>

\* the note descriptors built from checklists
ChecklistNotes ==
    { k \in 1..Len(denoteFiles) :
        Contains(denoteFiles[k].content, << "Source:", "TickTick Checklist" >>) }

\* a record with a child and no valid parent in the batch
IsRoot(data, task) ==
    /\ HasChild(data, task)
    /\ task.parentId = "" \/ ~HasRecord(data, task.parentId)

\* C10: every root checklist record yields its own note descriptor holding
\* all of its descendants: there are as many checklist notes as roots, and
\* each root has a note in which every record below it has a checkbox line.
C10_NotePerRoot ==
    Returned =>
        /\ Cardinality(ChecklistNotes)
             = Cardinality({ i \in 1..Len(tickTickData) : IsRoot(tickTickData, tickTickData[i]) })
        /\ \A i \in 1..Len(tickTickData) :
               LET root == tickTickData[i]
               IN  IsRoot(tickTickData, root) =>
                       \E k \in ChecklistNotes \cap NotesTitled(root) :
                           \A d \in DescendantsOf(tickTickData, root) :
                               \E p \in 1..Len(denoteFiles[k].content) :
                                   /\ denoteFiles[k].content[p][1] = "- [ ]"
                                   /\ denoteFiles[k].content[p][4] = tickTickData[d].Title

WriteStates == { orgWrite, archiveWrite } \cup Range(denoteWrite)

\* C5: a failed write is logged and aborts no other write and leaves the
\* exit status alone: after any failure the process is still running its
\* callbacks and its exit status is 0.
C5_FailureIsolated ==
    "failed" \in WriteStates => pc = "dispatched" /\ exitCode = 0 /\ stderr # {}

AllNotesCompleted ==
    /\ Len(denoteWrite) > 0
    /\ \A k \in 1..Len(denoteWrite) : denoteWrite[k] \in { "ok", "failed" }

NotesWritten == Cardinality({ k \in 1..Len(denoteWrite) : denoteWrite[k] = "ok" })

\* C6: once every dispatched note write has completed, the count of the
\* files written is reported, and it is not reported before that.
C6_CountReported ==
    /\ Returned /\ AllNotesCompleted =>
           << "Successfully created denote files", NotesWritten >> \in stdout
    /\ (\E n \in 0..Len(denoteWrite) : << "Successfully created denote files", n >> \in stdout)
           => AllNotesCompleted

\* C8: the file time of a note is set only once the write of that note has
\* succeeded.
C8_StampAfterWrite ==
    \A k \in 1..Len(utimes) : utimes[k] # "none" => denoteWrite[k] = "ok"

C8_Witness ==
    \E k, j \in 1..Len(utimes) :
        /\ utimes[k] = "pending"
        /\ denoteWrite[j] = "failed"
        /\ \E m \in 1..Len(utimes) : denoteWrite[m] = "pending"

\* the positions of the lines of a document, in order
Positions(doc) == [ k \in 1..Len(doc) |-> k ]

\* the header of the given kind ("**" or "***") that line i stands under
HeaderAbove(doc, kind, i) ==
    LET k == CHOOSE k \in 1..(i - 1) :
                 /\ doc[k][1] = kind
                 /\ \A m \in (k + 1)..(i - 1) : doc[m][1] # kind
    IN  doc[k][2]

\* the folder headers of an outline, top to bottom
FolderHeaders(doc) ==
    LET at == SelectSeq(Positions(doc), LAMBDA k : doc[k][1] = "**")
    IN  [ j \in 1..Len(at) |-> doc[at[j]][2] ]

\* the list headers under folder f, top to bottom
ListHeaders(doc, f) ==
    LET at == SelectSeq(Positions(doc),
                        LAMBDA k : doc[k][1] = "***" /\ HeaderAbove(doc, "**", k) = f)
    IN  [ j \in 1..Len(at) |-> doc[at[j]][2] ]

\* the position in the input sequence of the record an entry was made from
InputIndex(doc, i) == CHOOSE r \in 1..Len(tickTickData) : tickTickData[r].taskId = EntryId(doc, i)

\* the records of the input that have an entry in the document, in input order
RecordsIn(doc) == SelectSeq(tickTickData, LAMBDA t : EntriesOf(doc, t) # {})

\* the names in order of first occurrence
FirstSeen(names) == Dedupe(names)

InputOrdered(doc) ==
    /\ \A i, j \in Headlines(doc) :
           ( /\ i < j
             /\ HeaderAbove(doc, "**", i) = HeaderAbove(doc, "**", j)
             /\ HeaderAbove(doc, "***", i) = HeaderAbove(doc, "***", j) )
           => InputIndex(doc, i) < InputIndex(doc, j)
    /\ LET recs == RecordsIn(doc)
       IN  /\ FolderHeaders(doc) = FirstSeen([ r \in 1..Len(recs) |-> folderOf(recs[r]) ])
           /\ \A f \in Range(FolderHeaders(doc)) :
                  LET inF == SelectSeq(recs, LAMBDA t : folderOf(t) = f)
                  IN  ListHeaders(doc, f) = FirstSeen([ r \in 1..Len(inF) |-> listOf(inF[r]) ])

\* C11: within each (folder, list) group of an outline document the entries
\* are in the relative order of their records in the input sequence, and the
\* folders, and the lists within a folder, are in the order in which the
\* input sequence first shows them.
C11_InputOrder ==
    Returned => InputOrdered(orgContent) /\ InputOrdered(archiveContent)

\* the tags of a Tags string that are non-empty after comma-splitting,
\* trimming and replacing internal whitespace by underscores
SurvivingTags(tagString) ==
    LET pieces == Split(tagString, ",")
        cleaned == [ i \in 1..Len(pieces) |-> UnderscoreWhitespace(Trim(pieces[i])) ]
    IN  SelectSeq(cleaned, LAMBDA t : t # << >>)

\* the annotation of headline i: its tags, << >> when none is appended
AnnotationAt(doc, i) == doc[i][4]

TagsFiltered(doc) ==
    \A i \in Headlines(doc) :
        AnnotationAt(doc, i) = SurvivingTags(tickTickData[InputIndex(doc, i)].Tags)

\* C12: the tag annotation of an outline headline holds exactly the tags of
\* the task's Tags string that are non-empty after comma-splitting, trimming
\* and replacing internal whitespace by underscores, and is appended only when
\* at least one such tag survives.
C12_TagsFiltered ==
    Returned => TagsFiltered(orgContent) /\ TagsFiltered(archiveContent)

====
